---- MODULE Spec2Model ----
(***************************************************************************)
(* Model of the tspdt-next-1k ranking pipeline.                            *)
(*                                                                         *)
(*   moviedata.py   Movie / MovieList: construction and sorting of items   *)
(*   sort.py        edges by year and by rank, reduction of ranked         *)
(*                  predecessors, topological layering, the shift of rows  *)
(*                  with no upper limit                                    *)
(*   bruteforce.py  the 'Between' column (range of possible ranks)         *)
(*                                                                         *)
(* A row is identified by its 1-based position in the sorted table (the    *)
(* 'Hash' column, "Vertices are 1-based indexes", sort.py:173).  A missing *)
(* rank or rank by year (None, '-' in the table) is written 0.             *)
(***************************************************************************)
EXTENDS Integers, Sequences, FiniteSets, TLC

VARIABLES
    pc,       \* the stage of process_table / main that runs next
    err,      \* the exception that ended the run, "none" while it runs
    rows,     \* MovieList.movies: <<[Year, Rby, Rank], ...>>
    After,    \* After[i]: r['After'] of row i, a list of row indexes
    Res,      \* Res[i]: r['Res'] of row i, 0 for '-'
    Between,  \* Between[i]: r['Between'] of row i, <<>> when absent
    report    \* what brute prints: the rows by number of candidates, and
              \* the Counter of the candidate ranks; <<>> before it runs

vars == <<pc, err, rows, After, Res, Between, report>>

----------------------------------------------------------------------------
(* Bounds of the model *)

MaxRows == 4
MaxRby == 3
MaxRankOffset == 3

(* Constants of the program *)

LOW == 1001
HIGH == 2000
RbyHigh == 25
NoRby == 99
NoRank == 9999
ShiftBy == 1000

Years == {1999, 2000}
RbyValues == 0..MaxRby
\* ranks drawn for the input: two adjacent ones, a distant one, and one
\* above the allowed range
RankValues == {0, LOW, LOW + 1, LOW + MaxRankOffset, HIGH + 1}

----------------------------------------------------------------------------
(* Generic helpers *)

Range(s) == {s[i] : i \in 1..Len(s)}

Contains(s, x) == \E i \in 1..Len(s) : s[i] = x

Last(s) == s[Len(s)]

RECURSIVE SelectIdx(_, _)
\* the indexes of 1..n that are in S, ascending, as a sequence
SelectIdx(n, S) ==
    IF n = 0 THEN <<>>
    ELSE IF n \in S THEN Append(SelectIdx(n - 1, S), n)
         ELSE SelectIdx(n - 1, S)

RECURSIVE Digits(_)
\* str(n) as a sequence of decimal digits
Digits(n) == IF n < 10 THEN <<n>> ELSE Append(Digits(n \div 10), n % 10)

RECURSIVE SeqLess(_, _)
\* Python's < on strings and on tuples: lexicographic
SeqLess(a, b) ==
    IF Len(b) = 0 THEN FALSE
    ELSE IF Len(a) = 0 THEN TRUE
    ELSE IF a[1] /= b[1] THEN a[1] < b[1]
    ELSE SeqLess(Tail(a), Tail(b))

\* r1['Rank'] < r2['Rank'] on the table's strings
StrLess(m, n) == SeqLess(Digits(m), Digits(n))

----------------------------------------------------------------------------
(* moviedata.py *)

\* Movie.__init__: the ValueError checks on rby and rank
ValidMovie(m) ==
    /\ (m.Rby /= 0 => (1 <= m.Rby /\ m.Rby <= RbyHigh))
    /\ (m.Rank /= 0 => (LOW <= m.Rank /\ m.Rank <= HIGH))

\* the key of MovieList.sort
SortKey(m) ==
    << m.Year,
       IF m.Rby /= 0 THEN m.Rby ELSE NoRby,
       IF m.Rank /= 0 THEN m.Rank ELSE NoRank >>

RECURSIVE InsertMovie(_, _)
\* insert m after every element whose key is not greater (stable)
InsertMovie(s, m) ==
    IF Len(s) = 0 THEN <<m>>
    ELSE IF SeqLess(SortKey(m), SortKey(Last(s)))
         THEN Append(InsertMovie(SubSeq(s, 1, Len(s) - 1), m), Last(s))
         ELSE Append(s, m)

RECURSIVE MovieListSort(_)
\* MovieList.sort: list.sort is stable
MovieListSort(s) ==
    IF Len(s) = 0 THEN <<>>
    ELSE InsertMovie(MovieListSort(SubSeq(s, 1, Len(s) - 1)), Last(s))

----------------------------------------------------------------------------
(* Construction of the table.  The rows arrive one by one; list.sort is    *)
(* stable and its key covers every field modelled, so the sorted table     *)
(* depends on the multiset of rows alone, and the model lets them arrive   *)
(* in one order per multiset: by rank first, which is not the order        *)
(* MovieList.sort produces.                                                *)

RowDomain == [Year : Years, Rby : RbyValues, Rank : RankValues]

ArrivalKey(m) == << m.Rank, m.Rby, m.Year >>

Init ==
    /\ pc = "construct"
    /\ err = "none"
    /\ rows = <<>>
    /\ After = <<>>
    /\ Res = <<>>
    /\ Between = <<>>
    /\ report = <<>>

\* Movie(title, year, rby, rank) for the next row of the collated list
NewMovie(m) ==
    /\ pc = "construct"
    /\ Len(rows) < MaxRows
    /\ IF Len(rows) = 0 THEN TRUE
       ELSE ~SeqLess(ArrivalKey(m), ArrivalKey(Last(rows)))
    /\ IF ValidMovie(m)
       THEN /\ rows' = Append(rows, m)
            /\ UNCHANGED <<pc, err>>
       ELSE /\ pc' = "failed"
            /\ err' = "ValueError"
            /\ UNCHANGED rows
    /\ UNCHANGED <<After, Res, Between, report>>

\* MovieList.__init__: list(it), then sort; the table starts with empty
\* 'After' fields and '-' in 'Res'
MovieListInit ==
    /\ pc = "construct"
    /\ Len(rows) > 0
    /\ rows' = MovieListSort(rows)
    /\ After' = [i \in 1..Len(rows) |-> <<>>]
    /\ Res' = [i \in 1..Len(rows) |-> 0]
    /\ Between' = [i \in 1..Len(rows) |-> <<>>]
    /\ pc' = "edges_by_year"
    /\ UNCHANGED <<err, report>>

----------------------------------------------------------------------------
(* sort.py: the edges *)

has_rank(r) == r.Rank /= 0

RECURSIVE InsertInt(_, _)
InsertInt(s, n) ==
    IF Len(s) = 0 THEN <<n>>
    ELSE IF n < Last(s)
         THEN Append(InsertInt(SubSeq(s, 1, Len(s) - 1), n), Last(s))
         ELSE Append(s, n)

RECURSIVE SortInts(_)
\* sorted(...) on a list of ints
SortInts(s) ==
    IF Len(s) = 0 THEN <<>>
    ELSE InsertInt(SortInts(SubSeq(s, 1, Len(s) - 1)), Last(s))

RECURSIVE RanksUpTo(_, _)
\* [int(r['Rank']) for r in rows[:n] if has_rank(r)]
RanksUpTo(rs, n) ==
    IF n = 0 THEN <<>>
    ELSE IF has_rank(rs[n]) THEN Append(RanksUpTo(rs, n - 1), rs[n].Rank)
         ELSE RanksUpTo(rs, n - 1)

RECURSIVE RunsUpTo(_, _)
\* consecutive_runs: groupby(enumerate(num_arr), index - value) on the
\* first n numbers; a number opens a new run unless it is one more than
\* the number before it
RunsUpTo(nums, n) ==
    IF n = 0 THEN <<>>
    ELSE LET before == RunsUpTo(nums, n - 1) IN
         IF n > 1 /\ (n - 1) - nums[n] = (n - 2) - nums[n - 1]
         THEN [before EXCEPT ![Len(before)] = Append(@, nums[n])]
         ELSE Append(before, <<nums[n]>>)

consecutive_runs(nums) == RunsUpTo(nums, Len(nums))

\* row_by_field(rows, 'Rank', value): the first row with that rank
row_by_field(rs, value) ==
    CHOOSE i \in 1..Len(rs) :
        /\ rs[i].Rank = value
        /\ \A j \in 1..(i - 1) : rs[j].Rank /= value

\* a plausible slip: the row is never replaced by the end of its run
max_ranked_after_unadjusted(rs, row, guard) == row

\* mra(row, guard) of max_ranked_after_factory(rows): a ranked row before
\* a rankless guard is replaced by the row that ends its run of ranks
max_ranked_after(rs, row, guard) ==
    IF ~has_rank(rs[row]) \/ has_rank(rs[guard]) THEN row
    ELSE LET runs == consecutive_runs(SortInts(RanksUpTo(rs, Len(rs))))
             k == CHOOSE k \in 1..Len(runs) :
                     /\ Contains(runs[k], rs[row].Rank)
                     /\ \A j \in 1..(k - 1) : ~Contains(runs[j], rs[row].Rank)
         IN IF rs[row].Rank = Last(runs[k]) THEN row
            ELSE row_by_field(rs, Last(runs[k]))

\* a plausible slip: the list is replaced instead of extended
set_after_overwrite(after, r, antecedent) ==
    [after EXCEPT ![r] = <<antecedent>>]

\* set_after(r, antecedent) on the 'After' lists
set_after(after, r, antecedent) ==
    IF Contains(after[r], antecedent) THEN after
    ELSE [after EXCEPT ![r] = Append(@, antecedent)]

\* a plausible slip: any larger number is taken as the next one
rby_follows_gap(rs, prev, seen_dash, n) ==
    ~seen_dash /\ (prev = 0 \/ rs[n].Rby > rs[prev].Rby)

\* the test of line 138: no dash seen in the group, and the first number
\* of the group or one more than the number before
rby_follows(rs, prev, seen_dash, n) ==
    ~seen_dash /\ (prev = 0 \/ rs[n].Rby = rs[prev].Rby + 1)

RECURSIVE YearLoop(_, _, _)
\* compute_edges_by_year after the first n rows: prev and seen_dash start
\* afresh in every year group; failed is the 'Wrong rby' exception.  A
\* numbered rby is at least 1 here (Movie.__init__), so the 'rby should
\* be positive' exception cannot be raised.
YearLoop(rs, after0, n) ==
    IF n = 0 THEN [prev |-> 0, seen_dash |-> FALSE, after |-> after0, failed |-> FALSE]
    ELSE LET s == YearLoop(rs, after0, n - 1)
             first == n = 1 \/ rs[n - 1].Year /= rs[n].Year
             prev == IF first THEN 0 ELSE s.prev
             seen_dash == IF first THEN FALSE ELSE s.seen_dash
             linked == IF prev /= 0
                       THEN set_after(s.after, n, max_ranked_after(rs, prev, n))
                       ELSE s.after
         IN IF s.failed THEN s
            ELSE IF rs[n].Rby /= 0
            THEN IF rby_follows(rs, prev, seen_dash, n)
                 THEN [prev |-> n, seen_dash |-> seen_dash, after |-> linked,
                       failed |-> FALSE]
                 ELSE [prev |-> prev, seen_dash |-> seen_dash, after |-> s.after,
                       failed |-> TRUE]
            ELSE [prev |-> prev, seen_dash |-> TRUE, after |-> linked,
                  failed |-> FALSE]

compute_edges_by_year(rs, after0) == YearLoop(rs, after0, Len(rs))

RECURSIVE InsertByRank(_, _, _)
\* insertion by the key itemgetter('Rank'), a string, stable
InsertByRank(rs, s, i) ==
    IF Len(s) = 0 THEN <<i>>
    ELSE IF StrLess(rs[i].Rank, rs[Last(s)].Rank)
         THEN Append(InsertByRank(rs, SubSeq(s, 1, Len(s) - 1), i), Last(s))
         ELSE Append(s, i)

RECURSIVE SortByRank(_, _)
SortByRank(rs, s) ==
    IF Len(s) = 0 THEN <<>>
    ELSE InsertByRank(rs, SortByRank(rs, SubSeq(s, 1, Len(s) - 1)), Last(s))

\* rows_by_rank of compute_edges_by_rank, as row indexes
rows_by_rank(rs) ==
    SortByRank(rs, SelectIdx(Len(rs), {i \in 1..Len(rs) : has_rank(rs[i])}))

RECURSIVE ChainUpTo(_, _, _)
\* set_after(r2, r1) for the first n pairs of pairwise(rows_by_rank)
ChainUpTo(byrank, after0, n) ==
    IF n = 0 THEN after0
    ELSE set_after(ChainUpTo(byrank, after0, n - 1), byrank[n + 1], byrank[n])

\* a plausible slip: the ranked rows sorted in descending order
compute_edges_by_rank_descending(rs, after0) ==
    LET asc == rows_by_rank(rs)
        byrank == [k \in 1..Len(asc) |-> asc[Len(asc) + 1 - k]]
    IN IF Len(byrank) < 2 THEN after0
       ELSE ChainUpTo(byrank, after0, Len(byrank) - 1)

compute_edges_by_rank(rs, after0) ==
    LET byrank == rows_by_rank(rs) IN
    IF Len(byrank) < 2 THEN after0
    ELSE ChainUpTo(byrank, after0, Len(byrank) - 1)

RECURSIVE InsertByIntRank(_, _, _)
\* insertion by the key int(x['Rank']), stable
InsertByIntRank(rs, s, i) ==
    IF Len(s) = 0 THEN <<i>>
    ELSE IF rs[i].Rank < rs[Last(s)].Rank
         THEN Append(InsertByIntRank(rs, SubSeq(s, 1, Len(s) - 1), i), Last(s))
         ELSE Append(s, i)

RECURSIVE SortByIntRank(_, _)
SortByIntRank(rs, s) ==
    IF Len(s) = 0 THEN <<>>
    ELSE InsertByIntRank(rs, SortByIntRank(rs, SubSeq(s, 1, Len(s) - 1)), Last(s))

\* a plausible slip: all the ranked rows but the first by rank are taken out
reduced_after_lowest(rs, lst) ==
    LET ranked_prev_rows == SelectSeq(lst, LAMBDA x : has_rank(rs[x]))
        sorted == SortByIntRank(rs, ranked_prev_rows)
        after_first == SubSeq(sorted, 2, Len(sorted))
    IN IF Len(ranked_prev_rows) > 1
       THEN SelectSeq(lst, LAMBDA x : ~Contains(after_first, x))
       ELSE lst

\* a plausible slip: the closest ranked row is taken out with the others
reduced_after_none_kept(rs, lst) ==
    LET ranked_prev_rows == SelectSeq(lst, LAMBDA x : has_rank(rs[x]))
    IN IF Len(ranked_prev_rows) > 1
       THEN SelectSeq(lst, LAMBDA x : ~has_rank(rs[x]))
       ELSE lst

\* the new 'After' of one row in remove_extra_afters: with more than one
\* ranked row in it, all of them but the last by rank are taken out
reduced_after(rs, lst) ==
    LET ranked_prev_rows == SelectSeq(lst, LAMBDA x : has_rank(rs[x]))
        sorted == SortByIntRank(rs, ranked_prev_rows)
        before_closest == SubSeq(sorted, 1, Len(sorted) - 1)
    IN IF Len(ranked_prev_rows) > 1
       THEN SelectSeq(lst, LAMBDA x : ~Contains(before_closest, x))
       ELSE lst

remove_extra_afters(rs, after) ==
    [i \in 1..Len(rs) |-> reduced_after(rs, after[i])]

----------------------------------------------------------------------------
(* sort.py: the approximate position *)

\* get_graph: the rows with a non-empty 'After', each with its set
get_graph(after) ==
    [i \in {j \in 1..Len(after) : Len(after[j]) > 0} |-> Range(after[i])]

\* the vertices toposort works on: the keys and every row they depend on
Vertices(graph) == DOMAIN graph \cup UNION {graph[i] : i \in DOMAIN graph}

Deps(graph, v) == IF v \in DOMAIN graph THEN graph[v] ELSE {}

RECURSIVE toposort(_, _)
\* the generations of the graph, as a sequence of sets, after those in
\* done: each takes the vertices whose dependencies are all in earlier
\* generations; it stops when no vertex is left or none is eligible
toposort(graph, done) ==
    LET placed == UNION Range(done)
        ordered == {v \in Vertices(graph) \ placed : Deps(graph, v) \subseteq placed}
    IN IF ordered = {} THEN done
       ELSE toposort(graph, Append(done, ordered))

\* what toposort leaves unplaced: not empty exactly when it raises
circular(graph) == Vertices(graph) \ UNION Range(toposort(graph, <<>>))

\* set_approx_pos: rows[index - 1]['Res'] = i for the i-th generation
set_approx_pos(res, after) ==
    LET gens == toposort(get_graph(after), <<>>) IN
    [i \in 1..Len(res) |->
        IF \E g \in 1..Len(gens) : i \in gens[g]
        THEN CHOOSE g \in 1..Len(gens) : i \in gens[g]
        ELSE res[i]]

\* have_upper_limit of shift_rows_with_no_upper_limit
have_upper_limit(after) == UNION {Range(after[i]) : i \in 1..Len(after)}

\* a plausible slip: the test for a rank is left out
shift_rows_ranked_too(rs, res, after) ==
    [i \in 1..Len(rs) |->
        IF i \notin UNION {Range(after[j]) : j \in 1..Len(after)} /\ res[i] /= 0
        THEN res[i] + ShiftBy
        ELSE res[i]]

\* a plausible slip: the rows with an empty 'After' are shifted instead
shift_rows_with_no_lower_limit(rs, res, after) ==
    [i \in 1..Len(rs) |->
        IF Len(after[i]) = 0 /\ res[i] /= 0 /\ ~has_rank(rs[i])
        THEN res[i] + ShiftBy
        ELSE res[i]]

shift_rows_with_no_upper_limit(rs, res, after) ==
    [i \in 1..Len(rs) |->
        IF i \notin have_upper_limit(after) /\ res[i] /= 0 /\ ~has_rank(rs[i])
        THEN res[i] + ShiftBy
        ELSE res[i]]

----------------------------------------------------------------------------
(* bruteforce.py: the range of possible ranks *)

\* a plausible slip: the comparison the other way round
lower_before_flipped(rank, before) == before = 0 \/ StrLess(before, rank)

\* ('BeforeRank' not in ant) or ant['BeforeRank'] > r['Rank']
lower_before(rank, before) == before = 0 \/ StrLess(rank, before)

\* ('AfterRank' not in r) or r['AfterRank'] < ant['Rank']
higher_after(rank, aft) == aft = 0 \/ StrLess(aft, rank)

RECURSIVE BeforeOfRow(_, _, _, _, _)
\* the loop over unranked_before_ranked for one ranked row r: the first k
\* entries ant of its 'After'; before[ant] is ant['BeforeRank'], 0 if unset
BeforeOfRow(rs, lst, k, r, before) ==
    IF k = 0 THEN before
    ELSE LET b == BeforeOfRow(rs, lst, k - 1, r, before)
             ant == lst[k]
         IN IF ~has_rank(rs[ant]) /\ lower_before(rs[r].Rank, b[ant])
            THEN [b EXCEPT ![ant] = rs[r].Rank]
            ELSE b

RECURSIVE BeforeRank(_, _, _)
BeforeRank(rs, after, n) ==
    IF n = 0 THEN [i \in 1..Len(rs) |-> 0]
    ELSE IF has_rank(rs[n])
         THEN BeforeOfRow(rs, after[n], Len(after[n]), n, BeforeRank(rs, after, n - 1))
         ELSE BeforeRank(rs, after, n - 1)

RECURSIVE AfterOfRow(_, _, _, _, _)
\* the loop over ranked_before_unranked for one unranked row r
AfterOfRow(rs, lst, k, r, aft) ==
    IF k = 0 THEN aft
    ELSE LET a == AfterOfRow(rs, lst, k - 1, r, aft)
             ant == lst[k]
         IN IF has_rank(rs[ant]) /\ higher_after(rs[ant].Rank, a[r])
            THEN [a EXCEPT ![r] = rs[ant].Rank]
            ELSE a

RECURSIVE AfterRank(_, _, _)
AfterRank(rs, after, n) ==
    IF n = 0 THEN [i \in 1..Len(rs) |-> 0]
    ELSE IF ~has_rank(rs[n])
         THEN AfterOfRow(rs, after[n], Len(after[n]), n, AfterRank(rs, after, n - 1))
         ELSE AfterRank(rs, after, n - 1)

\* a plausible slip: the two keys taken for each other
between_of_swapped(a, b) ==
    IF b /= 0 /\ a /= 0 THEN <<b + 1, a - 1>>
    ELSE IF a /= 0 THEN <<LOW, a - 1>>
    ELSE IF b /= 0 THEN <<b + 1, HIGH>>
    ELSE <<>>

\* r['Between'] from r['AfterRank'] and r['BeforeRank']
between_of(a, b) ==
    IF b /= 0 /\ a /= 0 THEN <<a + 1, b - 1>>
    ELSE IF b /= 0 THEN <<LOW, b - 1>>
    ELSE IF a /= 0 THEN <<a + 1, HIGH>>
    ELSE <<>>

create_between_col(rs, after) ==
    LET before == BeforeRank(rs, after, Len(rs))
        aft == AfterRank(rs, after, Len(rs))
    IN [i \in 1..Len(rs) |-> between_of(aft[i], before[i])]

----------------------------------------------------------------------------
(* bruteforce.py: the candidates *)

\* occupied_ranks, as the set available_ranks_fct makes of it
occupied_ranks(rs) == {rs[i].Rank : i \in {j \in 1..Len(rs) : has_rank(rs[j])}}

\* a plausible slip: the upper end of the range is left out
available_ranks_exclusive(rs, range_incl) ==
    (range_incl[1]..(range_incl[2] - 1)) \ occupied_ranks(rs)

\* available_ranks(range_incl) of available_ranks_fct(rows)
available_ranks(rs, range_incl) ==
    (range_incl[1]..range_incl[2]) \ occupied_ranks(rs)

RECURSIVE InsertByCount(_, _)
\* insertion by the key len(x[0]), stable
InsertByCount(s, x) ==
    IF Len(s) = 0 THEN <<x>>
    ELSE IF Cardinality(x.ranks) < Cardinality(Last(s).ranks)
         THEN Append(InsertByCount(SubSeq(s, 1, Len(s) - 1), x), Last(s))
         ELSE Append(s, x)

RECURSIVE SortByCount(_)
SortByCount(s) ==
    IF Len(s) = 0 THEN <<>>
    ELSE InsertByCount(SortByCount(SubSeq(s, 1, Len(s) - 1)), Last(s))

RECURSIVE CounterSum(_, _)
\* sum((Counter(x[0]) for x in easiest_rows[:n]), Counter()): a Counter
\* has a key for every rank counted at least once
CounterSum(easiest, n) ==
    IF n = 0 THEN <<>>
    ELSE LET c == CounterSum(easiest, n - 1)
             S == easiest[n].ranks
         IN [r \in DOMAIN c \cup S |->
                (IF r \in DOMAIN c THEN c[r] ELSE 0) + (IF r \in S THEN 1 ELSE 0)]

\* brute: the rankless rows with a 'Between', each with its available
\* ranks, sorted by their number, and the Counter it prints
brute(rs, between) ==
    LET unranked_lim ==
            SelectIdx(Len(rs), {i \in 1..Len(rs) :
                                   ~has_rank(rs[i]) /\ between[i] /= <<>>})
        easiest_rows ==
            SortByCount([k \in 1..Len(unranked_lim) |->
                            [ranks |-> available_ranks(rs, between[unranked_lim[k]]),
                             row |-> unranked_lim[k]]])
    IN [easiest_rows |-> easiest_rows,
        candidates |-> CounterSum(easiest_rows, Len(easiest_rows))]

----------------------------------------------------------------------------
(* The run: get_final_collated_list, then process_table, then              *)
(* create_between_col and brute                                            *)

ComputeEdgesByYear ==
    /\ pc = "edges_by_year"
    /\ LET s == compute_edges_by_year(rows, After) IN
       /\ After' = s.after
       /\ IF s.failed
          THEN pc' = "failed" /\ err' = "Exception"
          ELSE pc' = "edges_by_rank" /\ err' = err
    /\ UNCHANGED <<rows, Res, Between, report>>

ComputeEdgesByRank ==
    /\ pc = "edges_by_rank"
    /\ After' = compute_edges_by_rank(rows, After)
    /\ pc' = "reduce"
    /\ UNCHANGED <<rows, err, Res, Between, report>>

RemoveExtraAfters ==
    /\ pc = "reduce"
    /\ After' = remove_extra_afters(rows, After)
    /\ pc' = "layer"
    /\ UNCHANGED <<rows, err, Res, Between, report>>

\* toposort is a generator: the generations before the one that cannot be
\* formed are written to 'Res' before the exception
SetApproxPos ==
    /\ pc = "layer"
    /\ Res' = set_approx_pos(Res, After)
    /\ IF circular(get_graph(After)) /= {}
       THEN pc' = "failed" /\ err' = "CycleError"
       ELSE pc' = "shift" /\ err' = err
    /\ UNCHANGED <<rows, After, Between, report>>

ShiftRowsWithNoUpperLimit ==
    /\ pc = "shift"
    /\ Res' = shift_rows_with_no_upper_limit(rows, Res, After)
    /\ pc' = "between"
    /\ UNCHANGED <<rows, err, After, Between, report>>

CreateBetweenCol ==
    /\ pc = "between"
    /\ Between' = create_between_col(rows, After)
    /\ pc' = "brute"
    /\ UNCHANGED <<rows, err, After, Res, report>>

Brute ==
    /\ pc = "brute"
    /\ report' = brute(rows, Between)
    /\ pc' = "done"
    /\ UNCHANGED <<rows, err, After, Res, Between>>

Next ==
    \/ \E m \in RowDomain : NewMovie(m)
    \/ MovieListInit
    \/ ComputeEdgesByYear
    \/ ComputeEdgesByRank
    \/ RemoveExtraAfters
    \/ SetApproxPos
    \/ ShiftRowsWithNoUpperLimit
    \/ CreateBetweenCol
    \/ Brute

Spec == Init /\ [][Next]_vars

----------------------------------------------------------------------------
(* Properties *)

N == Len(rows)

\* the stages that have run
Constructed == pc /= "construct" /\ err /= "ValueError"
EdgesByYearRan == Constructed /\ pc /= "edges_by_year"
EdgesBuilt == EdgesByYearRan /\ err /= "Exception" /\ pc /= "edges_by_rank"
Reduced == EdgesBuilt /\ pc /= "reduce"
LayeringRan == Reduced /\ pc /= "layer"
Shifted == LayeringRan /\ err /= "CycleError" /\ pc /= "shift"

\* the rby values of the rows of a year, in table order
RbysOfYear(y) ==
    LET idx == SelectIdx(N, {i \in 1..N : rows[i].Year = y /\ rows[i].Rby /= 0})
    IN [k \in 1..Len(idx) |-> rows[idx[k]].Rby]

\* a numbered row right after a row of its year that is not numbered one less
BrokenRun ==
    \E i \in 1..(N - 1) :
        /\ rows[i].Year = rows[i + 1].Year
        /\ rows[i + 1].Rby /= 0
        /\ rows[i + 1].Rby /= rows[i].Rby + 1

\* C1 as stated: a year whose rby values are not exactly 1, 2, ..., n
\* ends the edge builder with the exception
C1_StartsAtOne ==
    (EdgesByYearRan /\ \E y \in Years :
                          RbysOfYear(y) /= [k \in 1..Len(RbysOfYear(y)) |-> k])
        => (pc = "failed" /\ err = "Exception")

\* C1 amended: compute_edges_by_year ends the run with its 'Wrong rby'
\* exception exactly when, within a year, a numbered row follows a row that
\* is not numbered one less (a gap, a duplicate, a number after a dash);
\* the first number of a year may be any number from 1 up.  A year with
\* [1, 3] fails; a year that starts at 2 does not fail for that reason.
C1_ConsecutiveRby ==
    EdgesByYearRan =>
        /\ (err = "Exception") = BrokenRun
        /\ (err = "Exception" => pc = "failed")
        /\ (\E y \in Years : RbysOfYear(y) = <<1, 3>>) => err = "Exception"
        /\ (\A y \in Years : RbysOfYear(y) \in {<<>>, <<2>>, <<2, 3>>})
               => err /= "Exception"

C1_Witness ==
    /\ pc = "failed" /\ err = "Exception"
    /\ \E y \in Years : RbysOfYear(y) = <<1, 3>>

C1_WitnessStartsAtTwo ==
    /\ EdgesBuilt
    /\ \E y \in Years : RbysOfYear(y) = <<2, 3>>

RECURSIVE Expand(_, _)
\* S with every row reachable from it along 'After'
Expand(after, S) ==
    LET T == S \cup UNION {Range(after[j]) : j \in S}
    IN IF T = S THEN S ELSE Expand(after, T)

\* the transitive predecessors of row i
Ancestors(after, i) == Expand(after, Range(after[i]))

OnCycle(i) == i \in Ancestors(After, i)

UniqueRanks ==
    \A i, j \in 1..N : (i /= j /\ has_rank(rows[i])) => rows[i].Rank /= rows[j].Rank

\* the ranked rows of a year come in the order of their ranks
GroupOrderAgrees ==
    \A i, j \in 1..N :
        (i < j /\ rows[i].Year = rows[j].Year /\ has_rank(rows[i]) /\ has_rank(rows[j]))
            => rows[i].Rank < rows[j].Rank

\* two ranked rows of a year with a numbered rankless row between them
\* have an unoccupied rank between their ranks
RoomBetweenAnchors ==
    \A i, j \in 1..N :
        (/\ i < j /\ rows[i].Year = rows[j].Year
         /\ has_rank(rows[i]) /\ has_rank(rows[j])
         /\ \E k \in (i + 1)..(j - 1) : ~has_rank(rows[k]) /\ rows[k].Rby /= 0)
            => \E r \in (rows[i].Rank + 1)..(rows[j].Rank - 1) :
                   \A m \in 1..N : rows[m].Rank /= r

\* a cycle ends set_approx_pos with the error, the rows on it without 'Res'
CycleIsReported ==
    LayeringRan =>
        /\ (err = "CycleError") = (\E i \in 1..N : OnCycle(i))
        /\ (err = "CycleError" =>
                pc = "failed" /\ \A i \in 1..N : OnCycle(i) => Res[i] = 0)

\* C2 as stated: a cycle is reported by set_approx_pos, and unique ranks,
\* valid rby runs and a group order that agrees with the rank order leave
\* no cycle
C2_ConsistentIsAcyclic ==
    /\ CycleIsReported
    /\ (Reduced /\ UniqueRanks /\ GroupOrderAgrees)
           => (err /= "CycleError" /\ \A i \in 1..N : ~OnCycle(i))

\* C2 amended: whenever the graph left by the edge builder and the reducer
\* has a cycle, set_approx_pos fails with the cycle error and leaves the
\* rows on the cycle without 'Res'; with unique ranks, valid rby runs and a
\* group order that agrees with the rank order the graph has no cycle
\* exactly when, in addition, any two ranked rows of a year that have a
\* numbered rankless row between them have an unoccupied rank between
\* their ranks, and then layering completes
C2_CycleError ==
    /\ CycleIsReported
    /\ (Reduced /\ UniqueRanks /\ GroupOrderAgrees)
           => /\ RoomBetweenAnchors = (\A i \in 1..N : ~OnCycle(i))
              /\ RoomBetweenAnchors => err /= "CycleError"
    /\ (LayeringRan /\ UniqueRanks /\ GroupOrderAgrees /\ RoomBetweenAnchors)
           => pc /= "failed"

C2_Witness ==
    /\ pc = "failed" /\ err = "CycleError"
    /\ UniqueRanks /\ GroupOrderAgrees
    /\ \E i, j \in 1..N : OnCycle(i) /\ Res[j] /= 0

C2_WitnessCompletes ==
    /\ pc = "shift" /\ UniqueRanks /\ GroupOrderAgrees /\ RoomBetweenAnchors
    /\ \E i, j \in 1..N : i /= j /\ Res[i] /= 0 /\ ~has_rank(rows[i]) /\ has_rank(rows[j])

Unranked == {i \in 1..N : ~has_rank(rows[i])}

\* the ranks tried for the rankless rows: the lowest ones, with room above
\* the ranks drawn for the input, and the highest one
TrialRanks == LOW..(LOW + MaxRankOffset + 2) \cup {HIGH}

\* the rank of row i when the rankless rows get the ranks f
RankUnder(f, i) == IF has_rank(rows[i]) THEN rows[i].Rank ELSE f[i]

\* f gives the rankless rows ranks such that all ranks are distinct and
\* every row of an 'After' has a lower rank than the row that lists it
Consistent(f) ==
    /\ \A i, j \in 1..N : i /= j => RankUnder(f, i) /= RankUnder(f, j)
    /\ \A i \in 1..N : \A j \in Range(After[i]) : RankUnder(f, j) < RankUnder(f, i)

Assignments == {f \in [Unranked -> TrialRanks] : Consistent(f)}

\* C3: after the whole run, every consistent assignment of ranks puts
\* each rankless row inside its 'Between', and when such an assignment
\* exists no 'Between' has its lower end above its upper end
C3_RangeSound ==
    pc = "done" =>
        LET fs == Assignments IN
        /\ \A f \in fs : \A u \in Unranked :
               Between[u] /= <<>> => (Between[u][1] <= f[u] /\ f[u] <= Between[u][2])
        /\ fs /= {} =>
               \A u \in Unranked : Between[u] /= <<>> => Between[u][1] <= Between[u][2]

C3_Witness ==
    /\ pc = "done"
    /\ \E u \in Unranked :
          /\ Between[u] /= <<>> /\ Between[u][1] > LOW /\ Between[u][2] < HIGH
          /\ \E f, g \in Assignments : f[u] = Between[u][1] /\ g[u] = Between[u][2]

\* C4: after set_approx_pos and shift_rows_with_no_upper_limit on a graph
\* without a cycle, both ends of every edge have a 'Res', and the row in
\* 'After' has the lower one
C4_LayerMonotone ==
    Shifted =>
        \A c \in 1..N : \A p \in Range(After[c]) :
            Res[p] /= 0 /\ Res[c] /= 0 /\ Res[p] < Res[c]

C4_Witness ==
    /\ Shifted
    /\ \E c, p, q \in 1..N :
          /\ p \in Range(After[c]) /\ q \in Range(After[p])
          /\ Res[c] > ShiftBy

RankedIn(lst) == {j \in Range(lst) : has_rank(rows[j])}

\* the 'After' lists as the edge builder leaves them for this table
AfterBuilt ==
    compute_edges_by_rank(rows,
        compute_edges_by_year(rows, [i \in 1..N |-> <<>>]).after)

\* C5: remove_extra_afters leaves every row at most one ranked row in
\* 'After', one of highest rank among the ranked rows it had; the
\* rankless rows of 'After' stay as they were, and a row with at most one
\* ranked row in 'After' keeps its 'After'
C5_EdgeMinimality ==
    [][pc = "reduce" =>
        \A i \in 1..N :
            /\ Cardinality(RankedIn(After'[i])) <= 1
            /\ RankedIn(After'[i]) \subseteq RankedIn(After[i])
            /\ RankedIn(After[i]) /= {} => RankedIn(After'[i]) /= {}
            /\ \A k \in RankedIn(After'[i]) : \A j \in RankedIn(After[i]) :
                   rows[j].Rank <= rows[k].Rank
            /\ SelectSeq(After'[i], LAMBDA x : ~has_rank(rows[x]))
                   = SelectSeq(After[i], LAMBDA x : ~has_rank(rows[x]))
            /\ Cardinality(RankedIn(After[i])) <= 1 => After'[i] = After[i]
    ]_vars

C5_Witness ==
    /\ Reduced
    /\ UniqueRanks
    /\ \E i \in 1..N :
          /\ Cardinality(RankedIn(AfterBuilt[i])) > 1
          /\ Cardinality(RankedIn(After[i])) = 1
          /\ \E j \in 1..N : ~has_rank(rows[j]) /\ Len(After[j]) > 0

Max(S) == CHOOSE x \in S : \A y \in S : y <= x
Min(S) == CHOOSE x \in S : \A y \in S : x <= y

\* the rows that list row i in their 'After'
Successors(i) == {j \in 1..N : i \in Range(After[j])}

RankedSuccessors(i) == {j \in Successors(i) : has_rank(rows[j])}

Occupied == {rows[i].Rank : i \in {j \in 1..N : has_rank(rows[j])}}

RECURSIVE ChainLows(_)
\* r + k for every ranked row of rank r reached from row i along 'After'
\* through k rankless rows, i counted, without crossing a ranked row
ChainLows(i) ==
    {rows[p].Rank + 1 : p \in RankedIn(After[i])}
        \cup UNION {{v + 1 : v \in ChainLows(p)} :
                       p \in Range(After[i]) \ RankedIn(After[i])}

RECURSIVE ChainHighs(_)
\* r - k, the same way along the successors
ChainHighs(i) ==
    {rows[c].Rank - 1 : c \in RankedSuccessors(i)}
        \cup UNION {{v - 1 : v \in ChainHighs(c)} :
                       c \in Successors(i) \ RankedSuccessors(i)}

\* C6 as stated: every rankless row gets a range, from the chains to the
\* nearest ranked rows in each direction, or from the lowest and highest
\* unoccupied rank where there is none
C6_ChainAnchors ==
    pc = "done" =>
        \A u \in Unranked :
            /\ Between[u] /= <<>>
            /\ Between[u][1] = IF ChainLows(u) = {}
                               THEN Min((LOW..HIGH) \ Occupied)
                               ELSE Max(ChainLows(u))
            /\ Between[u][2] = IF ChainHighs(u) = {}
                               THEN Max((LOW..HIGH) \ Occupied)
                               ELSE Min(ChainHighs(u))

\* C6 amended: a rankless row with a ranked row in its 'After' or among
\* the rows that list it gets the range from one above the highest rank
\* in its 'After' (1001 when no ranked row is there) to one below the
\* lowest rank among the ranked rows that list it (2000 when there is
\* none); every other row, ranked or not, gets no range
C6_DirectAnchors ==
    pc = "done" =>
        \A i \in 1..N :
            LET lows == {rows[p].Rank : p \in RankedIn(After[i])}
                highs == {rows[c].Rank : c \in RankedSuccessors(i)}
            IN Between[i] =
                   IF has_rank(rows[i]) \/ (lows = {} /\ highs = {}) THEN <<>>
                   ELSE << IF lows = {} THEN LOW ELSE Max(lows) + 1,
                           IF highs = {} THEN HIGH ELSE Min(highs) - 1 >>

C6_Witness ==
    /\ pc = "done"
    /\ \E u, v \in Unranked :
          /\ RankedIn(After[u]) /= {}
          /\ Between[u] /= <<>>
          /\ u \in Range(After[v])
          /\ ChainLows(v) /= {}
          /\ Between[v] = <<>>

\* C7: no run ends with a row whose 'Between' has its lower end above its
\* upper end (the run would have to fail instead)
C7_ContradictionReported ==
    pc = "done" =>
        \A i \in 1..N : Between[i] /= <<>> => Between[i][1] <= Between[i][2]

\* C8: in every table the pipeline works on, the ranks are within
\* 1001..2000 and no two rows share one (a shared rank would have to end
\* the construction of the table)
C8_DuplicateRankRejected ==
    Constructed =>
        /\ \A i \in 1..N : has_rank(rows[i]) => (LOW <= rows[i].Rank /\ rows[i].Rank <= HIGH)
        /\ UniqueRanks

\* Scenario A, as the sorted table: #2 and #3 come first (rby 1 and 2),
\* then #1 (rank 1001) and #4 (rank 1004)
ScenarioA ==
    /\ Constructed
    /\ rows = << [Year |-> 2000, Rby |-> 1, Rank |-> 0],
                 [Year |-> 2000, Rby |-> 2, Rank |-> 0],
                 [Year |-> 2000, Rby |-> 0, Rank |-> LOW],
                 [Year |-> 2000, Rby |-> 0, Rank |-> LOW + 3] >>

Isolated(i) == Len(After[i]) = 0 /\ Successors(i) = {}

RECURSIVE Depth(_)
\* the number of rows on the longest path along 'After' that ends in row i
Depth(i) ==
    IF Len(After[i]) = 0 THEN 1
    ELSE 1 + Max({Depth(p) : p \in Range(After[i])})

\* C10 as stated: after layering and the shift, every rankless row with no
\* edge has a 'Res' above that of every row with an edge, and only such
\* rows are shifted
C10_NoEvidenceLast ==
    Shifted =>
        /\ \A u \in Unranked :
               Isolated(u) =>
                   /\ Res[u] /= 0
                   /\ \A j \in 1..N : ~Isolated(j) => Res[u] > Res[j]
        /\ \A i \in 1..N : Res[i] > ShiftBy => (i \in Unranked /\ Isolated(i))

\* C10 amended: after layering and the shift, a row with no edge has no
\* 'Res'; every other row has the length of its longest path of
\* predecessors, plus 1000 exactly when it is rankless and no row lists it
\* in 'After' (it has predecessors and no successor); the shifted rows are
\* above all the others
C10_NoUpperLimitLast ==
    Shifted =>
        /\ \A i \in 1..N :
               Res[i] = IF Isolated(i) THEN 0
                        ELSE IF i \in Unranked /\ Successors(i) = {}
                             THEN Depth(i) + ShiftBy
                             ELSE Depth(i)
        /\ \A i, j \in 1..N :
               (i \in Unranked /\ ~Isolated(i) /\ Successors(i) = {}
                  /\ ~(j \in Unranked /\ Successors(j) = {}))
                   => Res[i] > Res[j]

C10_Witness ==
    /\ Shifted
    /\ \E u, v \in Unranked : \E w \in 1..N :
          /\ Isolated(u) /\ Res[u] = 0
          /\ Len(After[v]) > 0 /\ Res[v] > ShiftBy
          /\ has_rank(rows[w]) /\ Len(After[w]) > 0 /\ Successors(w) = {}

\* the rankless rows that have a 'Between'
Limited == {i \in Unranked : Between[i] /= <<>>}

\* rank r lies in row i's 'Between' and no ranked row holds it
IsFree(i, r) ==
    /\ Between[i][1] <= r
    /\ r <= Between[i][2]
    /\ \A j \in 1..N : rows[j].Rank /= r

FreeInRange(i) == {r \in Between[i][1]..Between[i][2] : IsFree(i, r)}

\* C11: brute lists every rankless row that has a range once, with exactly
\* the ranks of its range that no ranked row holds, in non-decreasing
\* order of their number; its Counter gives for every rank the number of
\* rows whose candidates contain it; and it changes no row's rank,
\* 'After', 'Res' or 'Between'
C11_Candidates ==
    [][pc = "brute" =>
        /\ UNCHANGED <<rows, After, Res, Between>>
        /\ LET easiest == report'.easiest_rows
               counter == report'.candidates
           IN /\ Len(easiest) = Cardinality(Limited)
              /\ {easiest[k].row : k \in 1..Len(easiest)} = Limited
              /\ \A k \in 1..Len(easiest) :
                     easiest[k].ranks = FreeInRange(easiest[k].row)
              /\ \A k \in 1..(Len(easiest) - 1) :
                     Cardinality(easiest[k].ranks) <= Cardinality(easiest[k + 1].ranks)
              /\ \A r \in LOW..HIGH :
                     (IF r \in DOMAIN counter THEN counter[r] ELSE 0)
                         = Cardinality({i \in Limited : IsFree(i, r)})
              /\ DOMAIN counter \subseteq LOW..HIGH
    ]_vars

C11_Witness ==
    /\ pc = "done"
    /\ Len(report.easiest_rows) > 1
    /\ Cardinality(report.easiest_rows[1].ranks)
           < Cardinality(report.easiest_rows[2].ranks)
    /\ report.easiest_rows[1].row > report.easiest_rows[2].row
    /\ \E r \in DOMAIN report.candidates : report.candidates[r] = 2
    /\ \E i \in Limited : \E j \in 1..N :
          Between[i][1] < rows[j].Rank /\ rows[j].Rank < Between[i][2]

\* rows i and i + 1 are adjacent in the group order of one year
AdjacentInGroup(i) == i < N /\ rows[i].Year = rows[i + 1].Year

LastNumbered(i) ==
    LET S == {j \in 1..(i - 1) : rows[j].Year = rows[i].Year /\ rows[j].Rby /= 0}
    IN IF S = {} THEN 0 ELSE Max(S)

\* the highest rank reached from rank r through occupied ranks only
RunEnd(r) ==
    Max({q \in Occupied : q >= r /\ \A x \in r..q : x \in Occupied})

\* the rows that may stand for row p in the 'After' of row i
GroupAnchors(p, i) ==
    IF ~has_rank(rows[p]) \/ has_rank(rows[i]) THEN {p}
    ELSE IF UniqueRanks
    THEN {j \in 1..N : rows[j].Rank = RunEnd(rows[p].Rank)}
    ELSE {p} \cup {j \in 1..N : /\ rows[j].Rank > rows[p].Rank
                                /\ rows[j].Rank <= RunEnd(rows[p].Rank)}

C13_ReachabilityKept ==
    [][(pc = "reduce" /\ UniqueRanks /\ \A i \in 1..N : ~OnCycle(i)) =>
        \A i \in 1..N : Ancestors(After, i) \subseteq Ancestors(After', i)
    ]_vars

C13_Witness ==
    /\ Reduced
    /\ UniqueRanks
    /\ \A i \in 1..N : i \notin Ancestors(AfterBuilt, i)
    /\ \E i \in 1..N : \E j \in RankedIn(AfterBuilt[i]) :
          /\ j \notin Range(After[i])
          /\ j \in Ancestors(After, i)
====
